---- MODULE Spec2Model ----
(***************************************************************************)
(* Model of src/run_analysis.py: the synthetic data generator              *)
(* (generate_synthetic_data), the database load (setup_database) and the   *)
(* aggregation / export pipeline (run_analysis_and_export).                *)
(*                                                                         *)
(* Real numbers are exact rationals.  Scores, thresholds and target rates  *)
(* are integers in units of 1/Scale (1e-5), one decimal finer than the     *)
(* four decimals round(pdc_score, 4) keeps, so that the rounding acts.     *)
(* The fields age and admission_date are not carried: no query reads them. *)
(***************************************************************************)
EXTENDS Integers, Sequences, FiniteSets, TLC

\* ------------------------------------------------------------------ bounds
MaxN == 3
MaxAdmissions == 2

\* --------------------------------------------------------------- constants
Scale == 100000
ADHERENT_PATIENT_ADMISSION_RATE == 15000
NON_ADHERENT_PATIENT_ADMISSION_RATE == 40000
COST_PER_ADMISSION == 14700
LowFloor == 20000
Epsilon == 1000

\* The module-level configuration of the script and the variations explored.
Default ==
  [GROUP_1_RATIO |-> [num |-> 20, den |-> 41],
   ADHERENCE_THRESHOLD |-> 80000,
   GROUP_1_ADHERENCE_RATE |-> 75000,
   GROUP_2_ADHERENCE_RATE |-> 55556]

Ratios ==
  { [num |-> 20, den |-> 41], [num |-> 2, den |-> 3],
    [num |-> 3, den |-> 2], [num |-> -1, den |-> 2] }

Thresholds == { 80000, 80004, 20010, 20000, 500 }

Rates1 == { 75000, 150000 }

Rates2 == { 55556, -50000 }

\* Configurations with every ratio and rate in [0,1].
ValidConfigs ==
  { [Default EXCEPT !.GROUP_1_RATIO = r] :
      r \in { q \in Ratios : 0 <= q.num /\ q.num <= q.den } }

\* Ratios and rates inside and outside [0,1].
Configs ==
  { [Default EXCEPT !.GROUP_1_RATIO = r] : r \in Ratios }
    \cup { [Default EXCEPT !.GROUP_1_ADHERENCE_RATE = x] : x \in Rates1 }
    \cup { [Default EXCEPT !.GROUP_2_ADHERENCE_RATE = x] : x \in Rates2 }

\* Adherence thresholds strictly between 0 and 1.
ThresholdConfigs ==
  { [Default EXCEPT !.ADHERENCE_THRESHOLD = t] : t \in Thresholds }

\* ------------------------------------------------------ exact arithmetic
Abs(x) == IF x < 0 THEN -x ELSE x

RECURSIVE GCD(_, _)
GCD(a, b) == IF b = 0 THEN a ELSE GCD(b, a % b)

\* A float value: an exact rational in lowest terms, or a raised error.
ERR == [ok |-> FALSE, num |-> 0, den |-> 1]

Rat(n, d) ==
  LET g == GCD(Abs(n), Abs(d))
      s == IF d < 0 THEN -1 ELSE 1
  IN  [ok |-> TRUE, num |-> (s * n) \div g, den |-> (s * d) \div g]

FromInt(n) == [ok |-> TRUE, num |-> n, den |-> 1]

RMul(x, y) ==
  IF ~x.ok \/ ~y.ok THEN ERR ELSE Rat(x.num * y.num, x.den * y.den)

RSub(x, y) ==
  IF ~x.ok \/ ~y.ok THEN ERR
  ELSE Rat(x.num * y.den - y.num * x.den, x.den * y.den)

\* A division that yields 0 on a zero divisor instead of raising.
RDivSilent(x, y) ==
  IF ~x.ok \/ ~y.ok THEN ERR
  ELSE IF y.num = 0 THEN FromInt(0)
  ELSE Rat(x.num * y.den, x.den * y.num)

\* Python's / : ZeroDivisionError on a zero divisor.
RDiv(x, y) ==
  IF ~x.ok \/ ~y.ok \/ y.num = 0 THEN ERR
  ELSE Rat(x.num * y.den, x.den * y.num)

\* round-half-even of n/d (d > 0) to an integer.
RoundHalfEven(n, d) ==
  LET q == n \div d
      r == n % d
  IN  IF 2 * r < d THEN q
      ELSE IF 2 * r > d THEN q + 1
      ELSE IF q % 2 = 0 THEN q ELSE q + 1

\* round(x, 2): the value in hundredths.
Round2(x) == RoundHalfEven(x.num * 100, x.den)

\* round(pdc_score, 4) on a score in units of 1/Scale.
Round4(raw) == 10 * RoundHalfEven(raw, 10)

\* int(): truncation toward zero of n/d (d > 0).
IntTrunc(n, d) == IF n >= 0 THEN n \div d ELSE -((-n) \div d)

\* ------------------------------------------------------------- generator
NumGroup1(N, ratio) == IntTrunc(N * ratio.num, ratio.den)

AssignedGroupStrict(i, num_group_1) ==
  IF i < num_group_1 THEN "Group 1" ELSE "Group 2"

AssignedGroup(i, num_group_1) ==
  IF i <= num_group_1 THEN "Group 1" ELSE "Group 2"

TargetAdherence(group, c) == IF group = "Group 1" THEN c.GROUP_1_ADHERENCE_RATE
  ELSE c.GROUP_2_ADHERENCE_RATE

\* random.random() < target, random.random() in [0, 1).
Bernoulli(target) ==
  { b \in BOOLEAN : (b => target > 0) /\ (~b => target < Scale) }

\* random.uniform(a, b) = a + (b - a) * random.random(): the values between
\* a and b, whichever is larger; the two extremes stand for the interval.
Uniform(a, b) == { a, b }

PdcDraws(success, threshold) ==
  IF success THEN Uniform(threshold, Scale)
  ELSE Uniform(LowFloor, threshold - Epsilon)

AdherenceRecordByIndex(patient, pdc_score) ==
  [patient_id |-> patient.patient_id - 1, pdc_score |-> Round4(pdc_score)]

AdherenceRecord(patient, pdc_score) ==
  [patient_id |-> patient.patient_id, pdc_score |-> Round4(pdc_score)]

\* pd.merge(patients_df, adherence_df, on='patient_id'): inner join, in the
\* order of the left frame.
RECURSIVE Merge(_, _)
Merge(left, right) ==
  IF left = <<>> THEN <<>>
  ELSE LET p == Head(left)
           m == SelectSeq(right, LAMBDA a : a.patient_id = p.patient_id)
       IN  [k \in 1..Len(m) |->
              [patient_id |-> p.patient_id,
               assigned_group |-> p.assigned_group,
               pdc_score |-> m[k].pdc_score]]
           \o Merge(Tail(left), right)

IsAdherentStrict(pdc_score, threshold) == pdc_score > threshold

IsAdherent(pdc_score, threshold) == pdc_score >= threshold

AdmissionProb(is_adherent) ==
  IF is_adherent THEN ADHERENT_PATIENT_ADMISSION_RATE
  ELSE NON_ADHERENT_PATIENT_ADMISSION_RATE

\* np.random.poisson(lam): any count when lam > 0; none, one and several
\* stand for the counts.
Poisson(lam) == IF lam > 0 THEN {0, 1, MaxAdmissions} ELSE {0}

AdmissionRecordByPatient(counter, patient) ==
  [admission_id |-> patient.patient_id, patient_id |-> patient.patient_id]

AdmissionRecord(counter, patient) ==
  [admission_id |-> counter, patient_id |-> patient.patient_id]

\* ------------------------------------------------------------ aggregator
\* ORDER BY assigned_group.
Groups == << "Group 1", "Group 2" >>

\* p JOIN t ON p.patient_id = t.patient_id, as pairs of row numbers.
InnerJoin(patients, t) ==
  { r \in (DOMAIN patients) \X (DOMAIN t) :
      patients[r[1]].patient_id = t[r[2]].patient_id }

LeftJoinInner(patients, t) == InnerJoin(patients, t)

\* p LEFT JOIN t: an unmatched patient row is kept once, with NULLs (row 0).
LeftJoin(patients, t) ==
  InnerJoin(patients, t)
    \cup { << i, 0 >> : i \in { k \in DOMAIN patients :
                                 \A j \in DOMAIN t :
                                   t[j].patient_id # patients[k].patient_id } }

GroupRows(rows, patients, g) ==
  { r \in rows : patients[r[1]].assigned_group = g }

GroupsPresent(rows, patients) ==
  SelectSeq(Groups, LAMBDA g : GroupRows(rows, patients, g) # {})

\* The adherent count taken over all rows instead of the group's rows.
AdherenceQueryUngrouped(patients, adherence, threshold) ==
  LET rows == InnerJoin(patients, adherence)
      present == GroupsPresent(rows, patients)
  IN  [k \in 1..Len(present) |->
         [group |-> present[k],
          total_patients |->
            Cardinality(GroupRows(rows, patients, present[k])),
          adherent_patients |->
            Cardinality({ r \in rows :
                            adherence[r[2]].pdc_score >= threshold })]]

AdherenceQuery(patients, adherence, threshold) ==
  LET rows == InnerJoin(patients, adherence)
      present == GroupsPresent(rows, patients)
  IN  [k \in 1..Len(present) |->
         [group |-> present[k],
          total_patients |->
            Cardinality(GroupRows(rows, patients, present[k])),
          adherent_patients |->
            Cardinality({ r \in GroupRows(rows, patients, present[k]) :
                            adherence[r[2]].pdc_score >= threshold })]]

AdherenceData(results) ==
  [k \in 1..Len(results) |->
     [group |-> results[k].group,
      total_patients |-> results[k].total_patients,
      adherent_patients |-> results[k].adherent_patients,
      adherence_rate |->
        RMul(RDiv(FromInt(results[k].adherent_patients),
                  FromInt(results[k].total_patients)), FromInt(100))]]

AdherenceUplift(data) ==
  IF Len(data) < 2 THEN ERR
  ELSE RMul(RSub(RDiv(data[1].adherence_rate, data[2].adherence_rate),
                 FromInt(1)), FromInt(100))

\* COUNT(*) in place of COUNT(DISTINCT p.patient_id).
AdmissionsQueryCountRows(patients, admissions) ==
  LET rows == LeftJoin(patients, admissions)
      present == GroupsPresent(rows, patients)
  IN  [k \in 1..Len(present) |->
         [group |-> present[k],
          total_patients |->
            Cardinality(GroupRows(rows, patients, present[k])),
          total_admissions |->
            Cardinality({ r \in GroupRows(rows, patients, present[k]) :
                            r[2] # 0 })]]

AdmissionsQuery(patients, admissions) ==
  LET rows == LeftJoin(patients, admissions)
      present == GroupsPresent(rows, patients)
  IN  [k \in 1..Len(present) |->
         [group |-> present[k],
          total_patients |->
            Cardinality({ patients[r[1]].patient_id :
                            r \in GroupRows(rows, patients, present[k]) }),
          total_admissions |->
            Cardinality({ r \in GroupRows(rows, patients, present[k]) :
                            r[2] # 0 })]]

AdmissionsData(results) ==
  [k \in 1..Len(results) |->
     [group |-> results[k].group,
      total_patients |-> results[k].total_patients,
      total_admissions |-> results[k].total_admissions,
      admissions_per_1000 |->
        RMul(RDiv(FromInt(results[k].total_admissions),
                  FromInt(results[k].total_patients)), FromInt(1000))]]

AdmissionReduction(data) ==
  IF Len(data) < 2 THEN ERR
  ELSE RMul(RSub(FromInt(1),
                 RDiv(data[1].admissions_per_1000,
                      data[2].admissions_per_1000)), FromInt(100))

\* group1_patient_count read from the second record.
CostSavingsSecondCount(data) ==
  LET group1_patient_count == data[2].total_patients
      group1_total_admissions == data[1].total_admissions
      expected_admissions_in_group1 ==
        RMul(RDiv(data[2].admissions_per_1000, FromInt(1000)),
             FromInt(group1_patient_count))
      admissions_avoided ==
        RSub(expected_admissions_in_group1, FromInt(group1_total_admissions))
  IN  RMul(admissions_avoided, FromInt(COST_PER_ADMISSION))

CostSavings(data) ==
  LET group1_patient_count == data[1].total_patients
      group1_total_admissions == data[1].total_admissions
      expected_admissions_in_group1 ==
        RMul(RDiv(data[2].admissions_per_1000, FromInt(1000)),
             FromInt(group1_patient_count))
      admissions_avoided ==
        RSub(expected_admissions_in_group1, FromInt(group1_total_admissions))
  IN  RMul(admissions_avoided, FromInt(COST_PER_ADMISSION))

FinalResults(adh, adm, uplift, reduction, savings) ==
  [adherence_analysis |-> adh,
   admissions_analysis |-> adm,
   summary_findings |->
     [adherence_uplift_pct |-> Round2(uplift),
      hospitalization_reduction_pct |-> Round2(reduction),
      cost_savings |-> Round2(savings)]]

\* ------------------------------------------------------------------ state
VARIABLES
  config,                \* the module-level constants of the run
  pc,                    \* position in the script
  i,                     \* loop index / row number of the running loop
  patients_df,
  adherence_df,
  trial,                 \* outcome of random.random() < target, per patient
  full_patient_data,
  admissions_df,
  admission_id_counter,
  num_admissions,        \* iterations left of the inner loop
  admission_prob,        \* the intensity chosen, per row of full_patient_data
  adherence_data,
  adherence_uplift,
  admissions_data,
  admission_reduction,
  total_cost_savings,
  results_json           \* <<>>: no file written; <<doc>>: the document

vars ==
  << config, pc, i, patients_df, adherence_df, trial, full_patient_data,
     admissions_df, admission_id_counter, num_admissions, admission_prob,
     adherence_data, adherence_uplift, admissions_data, admission_reduction,
     total_cost_savings, results_json >>

genVars ==
  << patients_df, adherence_df, trial, full_patient_data, admissions_df,
     admission_id_counter, num_admissions, admission_prob >>

analysisVars ==
  << adherence_data, adherence_uplift, admissions_data, admission_reduction,
     total_cost_savings, results_json >>

InitWith(configs) ==
  /\ \E c \in configs, n \in 0..MaxN :
       config = [TOTAL_PATIENTS |-> n,
                 GROUP_1_RATIO |-> c.GROUP_1_RATIO,
                 ADHERENCE_THRESHOLD |-> c.ADHERENCE_THRESHOLD,
                 GROUP_1_ADHERENCE_RATE |-> c.GROUP_1_ADHERENCE_RATE,
                 GROUP_2_ADHERENCE_RATE |-> c.GROUP_2_ADHERENCE_RATE]
  /\ pc = "patients"
  /\ i = 1
  /\ patients_df = << >>
  /\ adherence_df = << >>
  /\ trial = << >>
  /\ full_patient_data = << >>
  /\ admissions_df = << >>
  /\ admission_id_counter = 1
  /\ num_admissions = 0
  /\ admission_prob = << >>
  /\ adherence_data = << >>
  /\ adherence_uplift = ERR
  /\ admissions_data = << >>
  /\ admission_reduction = ERR
  /\ total_cost_savings = ERR
  /\ results_json = << >>

Init == InitWith(ValidConfigs)

InitConfig == InitWith(Configs)

InitThreshold == InitWith(ThresholdConfigs)

\* ---------------------------------------------- generate_synthetic_data
\* Body of the first loop.
AppendPatient ==
  /\ pc = "patients"
  /\ i <= config.TOTAL_PATIENTS
  /\ patients_df' =
       Append(patients_df,
              [patient_id |-> i,
               assigned_group |->
                 AssignedGroup(i, NumGroup1(config.TOTAL_PATIENTS,
                                            config.GROUP_1_RATIO))])
  /\ i' = i + 1
  /\ UNCHANGED << config, pc, adherence_df, trial, full_patient_data,
                  admissions_df, admission_id_counter, num_admissions,
                  admission_prob >>
  /\ UNCHANGED analysisVars

\* patients_df = pd.DataFrame(patients); adherence_data = [].
BeginAdherence ==
  /\ pc = "patients"
  /\ i > config.TOTAL_PATIENTS
  /\ pc' = "adherence"
  /\ i' = 1
  /\ UNCHANGED << config, genVars, analysisVars >>

\* Body of the second loop.
DrawAdherence ==
  /\ pc = "adherence"
  /\ i <= Len(patients_df)
  /\ \E success \in Bernoulli(TargetAdherence(patients_df[i].assigned_group,
                                              config)) :
       \E pdc_score \in PdcDraws(success, config.ADHERENCE_THRESHOLD) :
         /\ adherence_df' =
              Append(adherence_df, AdherenceRecord(patients_df[i], pdc_score))
         /\ trial' = Append(trial, success)
  /\ i' = i + 1
  /\ UNCHANGED << config, pc, patients_df, full_patient_data, admissions_df,
                  admission_id_counter, num_admissions, admission_prob >>
  /\ UNCHANGED analysisVars

\* admission_id_counter = 1; the merge raises KeyError on frames without
\* columns (no patient at all).
MergeFrames ==
  /\ pc = "adherence"
  /\ i > Len(patients_df)
  /\ IF patients_df = << >>
       THEN /\ pc' = "error"
            /\ UNCHANGED << i, full_patient_data >>
       ELSE /\ pc' = "admissions"
            /\ i' = 1
            /\ full_patient_data' = Merge(patients_df, adherence_df)
  /\ admission_id_counter' = 1
  /\ UNCHANGED << config, patients_df, adherence_df, trial, admissions_df,
                  num_admissions, admission_prob >>
  /\ UNCHANGED analysisVars

\* Head of the third loop's body: classify, pick the intensity, draw the
\* count; with no admission the loop moves to the next row.
DrawAdmissions ==
  /\ pc = "admissions"
  /\ i <= Len(full_patient_data)
  /\ LET is_adherent == IsAdherent(full_patient_data[i].pdc_score,
                                   config.ADHERENCE_THRESHOLD)
     IN  /\ admission_prob' = Append(admission_prob, AdmissionProb(is_adherent))
         /\ num_admissions' \in Poisson(AdmissionProb(is_adherent))
  /\ pc' = IF num_admissions' = 0 THEN "admissions" ELSE "append"
  /\ i' = IF num_admissions' = 0 THEN i + 1 ELSE i
  /\ UNCHANGED << config, patients_df, adherence_df, trial,
                  full_patient_data, admissions_df, admission_id_counter >>
  /\ UNCHANGED analysisVars

\* One iteration of the inner loop; after the last one, the next row.
AppendAdmission ==
  /\ pc = "append"
  /\ num_admissions > 0
  /\ admissions_df' =
       Append(admissions_df,
              AdmissionRecord(admission_id_counter, full_patient_data[i]))
  /\ admission_id_counter' = admission_id_counter + 1
  /\ num_admissions' = num_admissions - 1
  /\ pc' = IF num_admissions = 1 THEN "admissions" ELSE "append"
  /\ i' = IF num_admissions = 1 THEN i + 1 ELSE i
  /\ UNCHANGED << config, patients_df, adherence_df, trial,
                  full_patient_data, admission_prob >>
  /\ UNCHANGED analysisVars

\* ------------------------------------------------------- setup_database
\* The generator returns and the frames are loaded.  to_sql keeps every
\* value; a frame built from an empty list has no column, so no usable
\* hospital_admissions table exists and the run raises.
SetupDatabase ==
  /\ pc = "admissions"
  /\ i > Len(full_patient_data)
  /\ pc' = IF admissions_df = << >> THEN "error" ELSE "adherence_analysis"
  /\ UNCHANGED << config, i, genVars, analysisVars >>

\* ----------------------------------------------- run_analysis_and_export
AdherenceAnalysis ==
  /\ pc = "adherence_analysis"
  /\ LET data == AdherenceData(AdherenceQuery(patients_df, adherence_df,
                                              config.ADHERENCE_THRESHOLD))
         uplift == AdherenceUplift(data)
     IN  /\ adherence_data' = data
         /\ adherence_uplift' = uplift
         /\ pc' = IF uplift.ok THEN "admissions_analysis" ELSE "error"
  /\ UNCHANGED << config, i, genVars, admissions_data, admission_reduction,
                  total_cost_savings, results_json >>

AdmissionsAnalysis ==
  /\ pc = "admissions_analysis"
  /\ LET data == AdmissionsData(AdmissionsQuery(patients_df, admissions_df))
         reduction == AdmissionReduction(data)
     IN  /\ admissions_data' = data
         /\ admission_reduction' = reduction
         /\ pc' = IF reduction.ok THEN "cost_savings" ELSE "error"
  /\ UNCHANGED << config, i, genVars, adherence_data, adherence_uplift,
                  total_cost_savings, results_json >>

CostSavingsCalculation ==
  /\ pc = "cost_savings"
  /\ total_cost_savings' = CostSavings(admissions_data)
  /\ pc' = "export"
  /\ UNCHANGED << config, i, genVars, adherence_data, adherence_uplift,
                  admissions_data, admission_reduction, results_json >>

Export ==
  /\ pc = "export"
  /\ results_json' =
       << FinalResults(adherence_data, admissions_data, adherence_uplift,
                       admission_reduction, total_cost_savings) >>
  /\ pc' = "done"
  /\ UNCHANGED << config, i, genVars, adherence_data, adherence_uplift,
                  admissions_data, admission_reduction, total_cost_savings >>

Next ==
  \/ AppendPatient
  \/ BeginAdherence
  \/ DrawAdherence
  \/ MergeFrames
  \/ DrawAdmissions
  \/ AppendAdmission
  \/ SetupDatabase
  \/ AdherenceAnalysis
  \/ AdmissionsAnalysis
  \/ CostSavingsCalculation
  \/ Export

\* The script as configured, and with the other in-range cohort ratio.
Spec == Init /\ [][Next]_vars

\* The script under configurations in and out of range.
SpecConfig == InitConfig /\ [][Next]_vars

\* The script under other adherence thresholds.
SpecThreshold == InitThreshold /\ [][Next]_vars

\* ----------------------------------------------------- derived notions
N == config.TOTAL_PATIENTS

Threshold == config.ADHERENCE_THRESHOLD

Written == results_json # << >>

PatientIds == { patients_df[k].patient_id : k \in DOMAIN patients_df }

CohortIds(g) ==
  { patients_df[k].patient_id :
      k \in { j \in DOMAIN patients_df : patients_df[j].assigned_group = g } }

AdmissionsOf(ids) ==
  { k \in DOMAIN admissions_df : admissions_df[k].patient_id \in ids }

AdherentOf(ids) ==
  { k \in DOMAIN adherence_df :
      /\ adherence_df[k].patient_id \in ids
      /\ adherence_df[k].pdc_score >= Threshold }

SuccessesOf(ids) ==
  { k \in DOMAIN adherence_df :
      adherence_df[k].patient_id \in ids /\ trial[k] }

Generating == pc \in { "patients", "adherence", "admissions", "append" }

RECURSIVE SumTotalPatients(_)
SumTotalPatients(rows) ==
  IF rows = << >> THEN 0
  ELSE Head(rows).total_patients + SumTotalPatients(Tail(rows))

RECURSIVE SumTotalAdmissions(_)
SumTotalAdmissions(rows) ==
  IF rows = << >> THEN 0
  ELSE Head(rows).total_admissions + SumTotalAdmissions(Tail(rows))

Sign(x) == IF x > 0 THEN 1 ELSE IF x < 0 THEN -1 ELSE 0

RatioInUnit ==
  /\ config.GROUP_1_RATIO.num >= 0
  /\ config.GROUP_1_RATIO.num <= config.GROUP_1_RATIO.den

ConfigValid ==
  /\ N > 0
  /\ RatioInUnit
  /\ config.GROUP_1_ADHERENCE_RATE >= 0
  /\ config.GROUP_1_ADHERENCE_RATE <= Scale
  /\ config.GROUP_2_ADHERENCE_RATE >= 0
  /\ config.GROUP_2_ADHERENCE_RATE <= Scale

\* ------------------------------------------------------------------ C1
\* C1: the patient ids are exactly 1..N without duplicates (1..i-1 while the
\* first loop runs), the admission ids are exactly 1..M in order of creation
\* (dense, from 1, no gap, no reuse), and the admission id counter always
\* equals the number of admission events appended so far plus 1.
C1_IdsDense ==
  /\ \A k \in DOMAIN patients_df : patients_df[k].patient_id = k
  /\ pc = "patients" => Len(patients_df) = i - 1
  /\ pc # "patients" => /\ Len(patients_df) = N
                        /\ PatientIds = 1..N
  /\ { admissions_df[k].admission_id : k \in DOMAIN admissions_df }
       = 1..Len(admissions_df)
  /\ \A j, k \in DOMAIN admissions_df :
       admissions_df[j].admission_id = admissions_df[k].admission_id => j = k
  /\ admission_id_counter = Len(admissions_df) + 1

C1_Witness ==
  /\ pc = "done"
  /\ N >= 2
  /\ Len(admissions_df) >= 3

\* ------------------------------------------------------------------ C2
\* C2: every adherence record and every admission event names an existing
\* patient in every state; once the adherence loop is over each patient has
\* exactly one adherence record.
C2_ReferentialIntegrity ==
  /\ \A k \in DOMAIN adherence_df : adherence_df[k].patient_id \in PatientIds
  /\ \A k \in DOMAIN admissions_df : admissions_df[k].patient_id \in PatientIds
  /\ pc \notin { "patients", "adherence" } =>
       /\ Len(adherence_df) = Len(patients_df)
       /\ \A p \in PatientIds :
            Cardinality({ k \in DOMAIN adherence_df :
                            adherence_df[k].patient_id = p }) = 1

\* A finished run whose patients have no, one and several admission events.
C2_Witness ==
  /\ pc = "done"
  /\ \E p, q, r \in PatientIds :
       /\ Cardinality(AdmissionsOf({p})) = 0
       /\ Cardinality(AdmissionsOf({q})) = 1
       /\ Cardinality(AdmissionsOf({r})) >= 2

\* ------------------------------------------------------------------ C3
\* C3: in every result document the per-cohort total_patients of the
\* adherence summary sum to N, and so do those of the admissions summary,
\* whatever the number of admission events per patient.
C3_PatientCountsSumToN ==
  Written =>
    /\ SumTotalPatients(results_json[1].adherence_analysis) = N
    /\ SumTotalPatients(results_json[1].admissions_analysis) = N

C3_Witness ==
  /\ Written
  /\ \E p \in PatientIds : Cardinality(AdmissionsOf({p})) >= 2

\* ------------------------------------------------------------------ C4
\* C4: patient i is in Group 1 iff i <= floor(N*r), whatever was drawn; for
\* a ratio r in [0,1], once all patients exist Group 1 has exactly
\* floor(N*r) patients and Group 2 the other N - floor(N*r).
C4_CohortByIndex ==
  LET floorNr == (N * config.GROUP_1_RATIO.num) \div config.GROUP_1_RATIO.den
  IN  /\ \A k \in DOMAIN patients_df :
           patients_df[k].assigned_group = "Group 1"
             <=> patients_df[k].patient_id <= floorNr
      /\ \A k \in DOMAIN patients_df :
           patients_df[k].assigned_group \in { "Group 1", "Group 2" }
      /\ (pc # "patients" /\ RatioInUnit) =>
           /\ Cardinality(CohortIds("Group 1")) = floorNr
           /\ Cardinality(CohortIds("Group 2")) = N - floorNr

C4_Witness ==
  /\ pc = "done"
  /\ N = 3
  /\ RatioInUnit
  /\ Cardinality(CohortIds("Group 1")) = 2

\* ------------------------------------------------------------------ C5
\* C5: in the admissions summary of a result document each cohort's
\* total_patients is the number of patients assigned to it, those without
\* admission included, its total_admissions is the number of admission
\* events of its patients, and the total_admissions sum to the number of
\* admission events generated.
C5_AdmissionsSummary ==
  Written =>
    LET rows == results_json[1].admissions_analysis
    IN  /\ \A k \in DOMAIN rows :
             /\ rows[k].total_patients
                  = Cardinality(CohortIds(rows[k].group))
             /\ rows[k].total_admissions
                  = Cardinality(AdmissionsOf(CohortIds(rows[k].group)))
        /\ [k \in DOMAIN rows |-> rows[k].group] = Groups
        /\ SumTotalAdmissions(rows) = Len(admissions_df)

C5_Witness ==
  /\ Written
  /\ \E p \in PatientIds : AdmissionsOf({p}) = {}

\* ------------------------------------------------------------------ C6
\* C6: when the generated data is degenerate (a cohort is empty, Group 2 has
\* no adherent patient or Group 2 has no admission event) the run is in one
\* of the two rate computations or has stopped in the error: it never
\* reaches the export and never writes the document; a document is written
\* only with every rate and all three derived metrics computed.
Degenerate ==
  \/ CohortIds("Group 1") = {}
  \/ CohortIds("Group 2") = {}
  \/ AdherentOf(CohortIds("Group 2")) = {}
  \/ AdmissionsOf(CohortIds("Group 2")) = {}

C6_NoPartialResult ==
  /\ (~Generating /\ Degenerate) =>
       /\ ~Written
       /\ pc \in { "adherence_analysis", "admissions_analysis", "error" }
  /\ Written =>
       /\ adherence_uplift.ok
       /\ admission_reduction.ok
       /\ total_cost_savings.ok
       /\ \A k \in DOMAIN adherence_data : adherence_data[k].adherence_rate.ok
       /\ \A k \in DOMAIN admissions_data :
            admissions_data[k].admissions_per_1000.ok
  /\ Generating => ~Written

\* Both cohorts populated and admissions exist, Group 2 without any adherent
\* patient: the run has stopped in the error.
C6_Witness ==
  /\ pc = "error"
  /\ CohortIds("Group 1") # {}
  /\ CohortIds("Group 2") # {}
  /\ AdmissionsOf(CohortIds("Group 2")) # {}
  /\ AdherentOf(CohortIds("Group 2")) = {}
  /\ ~Written

\* ------------------------------------------------------------------ C7
\* C7: with a cohort ratio or a target adherence rate outside [0,1], or a
\* population size that is not positive, no result document is written.
C7_ConfigErrorsFailFast == ~ConfigValid => ~Written

\* ------------------------------------------------------------------ C8
\* C8: in every result document each cohort has
\* 0 <= adherent_patients <= total_patients, an adherence_rate in [0,100],
\* total_admissions >= 0 and admissions_per_1000 >= 0.
C8_RatesInRange ==
  Written =>
    /\ \A k \in DOMAIN results_json[1].adherence_analysis :
         LET row == results_json[1].adherence_analysis[k]
         IN  /\ 0 <= row.adherent_patients
             /\ row.adherent_patients <= row.total_patients
             /\ row.adherence_rate.ok
             /\ 0 <= row.adherence_rate.num
             /\ row.adherence_rate.num <= 100 * row.adherence_rate.den
    /\ \A k \in DOMAIN results_json[1].admissions_analysis :
         LET row == results_json[1].admissions_analysis[k]
         IN  /\ row.total_admissions >= 0
             /\ row.admissions_per_1000.ok
             /\ row.admissions_per_1000.num >= 0

C8_Witness ==
  /\ Written
  /\ \E k \in DOMAIN results_json[1].adherence_analysis :
       LET row == results_json[1].adherence_analysis[k]
       IN  0 < row.adherent_patients /\ row.adherent_patients < row.total_patients

Classified(threshold_ok) ==
  threshold_ok =>
    /\ \A k \in DOMAIN adherence_df :
         /\ 0 <= adherence_df[k].pdc_score
         /\ adherence_df[k].pdc_score <= Scale
         /\ adherence_df[k].pdc_score >= Threshold <=> trial[k]
    /\ \A k \in DOMAIN admission_prob :
         \A j \in DOMAIN adherence_df :
           adherence_df[j].patient_id = full_patient_data[k].patient_id =>
             admission_prob[k] = IF trial[j]
                                   THEN ADHERENT_PATIENT_ADMISSION_RATE
                                   ELSE NON_ADHERENT_PATIENT_ADMISSION_RATE
    /\ Written =>
         \A k \in DOMAIN results_json[1].adherence_analysis :
           LET row == results_json[1].adherence_analysis[k]
           IN  row.adherent_patients
                 = Cardinality(SuccessesOf(CohortIds(row.group)))

\* C10 as stated: for every threshold strictly between 0 and 1, every score
\* lies in [0,1], a patient is classified adherent iff the Bernoulli trial
\* succeeded, the admission intensity is the low one exactly on success, and
\* the reported adherent_patients of a cohort is its number of successes.
C10_AnyThreshold == Classified(0 < Threshold /\ Threshold < Scale)

\* C10 amended: the same, for every threshold strictly between 0.2 and 1
\* that is a multiple of 0.0001, the precision the score is rounded to.
C10_ThresholdAboveFloor ==
  Classified(LowFloor < Threshold /\ Threshold < Scale /\ Threshold % 10 = 0)

C10_Witness ==
  /\ Written
  /\ Threshold = 20010
  /\ \E j, k \in DOMAIN trial : trial[j] /\ ~trial[k]

====
